---- MODULE Spec2Model ----
(***************************************************************************)
(* The island-model evolution driver of arm-hand-ai (src/bin/eval.rs):     *)
(* main's tick loop, make_new_generation, island_crossing, resume_island,  *)
(* the checkpoint naming, and the parallel fitness evaluation with the     *)
(* write-once normalisation statics of physics/arm.rs.                     *)
(* The functions the driver builds on are also applied on their own: the   *)
(* mutation scale, the record names and their listing (base_ai.rs), the    *)
(* reproduction operators (base_ai.rs, small_ai.rs, ai.rs) and the fitness *)
(* score as an f32 (sim_for_ai.rs).                                        *)
(*                                                                         *)
(* A genome is abstracted to the class of fitness it scores: the driver    *)
(* only clones genomes, compares their scores and hands them to the        *)
(* reproduction operators, whose Gaussian noise can produce any genome.    *)
(* Rust indices are 0-based; sequences here are 1-based, so slot k of a    *)
(* Vec is element k + 1.                                                   *)
(***************************************************************************)
EXTENDS Integers, Sequences, FiniteSets

(* ---- sizes.  The run's sizes are scaled down together so that the     ---- *)
(* ---- reachable populations can be enumerated; the code's values are   ---- *)
(* ---- given with each.                                                 ---- *)

\* number of islands, (0..5) in eval.rs:41 and eval.rs:52
ISLANDS == 2
\* genomes per island, 100 in eval.rs:14
ISLAND_POPULATION == 4
\* fresh random genomes per generation, 3 in eval.rs:15
ALWAYS_RAND_COUNT == 1
\* ticks of a run, (0..100) in eval.rs:60
TICKS == 2
\* the modulus of the migration test, i % 100 in eval.rs:95 (equal to TICKS in the code)
MIGRATION_PERIOD == 2
\* crossings per migration, (0..10) in eval.rs:117
CROSSINGS == 2
\* records on disk before a resumed run, at most
MAX_RECORDS == 2
\* rayon worker threads
WORKERS == 2
\* the highest best score tried, in hundredths
MAX_SCORE == 100
\* the highest sequence number among the records of a listed directory
MAX_FILES == 3
\* the highest sequence number whose name is read back
MAX_SEQ == 1234
\* the widest layer tried: outputs of a Linear
MAX_OUTPUTS == 2
\* simulation steps of one evaluation, 500 in sim_for_ai.rs:70
STEPS == 2
\* genomes of the island whose evaluation is followed score by score
EVALUATED == 2

\* elite fraction as numerator / denominator; 0.25 in eval.rs:13, scaled with
\* ISLAND_POPULATION so that the elite slice keeps two members
BEST_PROPORTION == <<1, 2>>

\* listing keeps the 30 most recent records
LIST_LIMIT == 30

\* the fitness classes a genome can fall in: the scores 1/(mape+1) are positive,
\* above the 0.0 that best_score starts from (eval.rs:56)
Genomes == {1, 2}

Islands == 0 .. (ISLANDS - 1)

Workers == 1 .. WORKERS

\* a worker with no evaluation in hand
Idle == [slot |-> 0, at |-> "idle"]

\* X_RANGE, Y_RANGE, MIN_X, MIN_Y of physics/arm.rs:27-30; every world is built
\* alike, so every thread would store the same value and only "set or not" matters
AllStatics == {"MIN_X", "X_RANGE", "MIN_Y", "Y_RANGE"}

NoEvent == [mothers_island |-> -1, fathers_island |-> -1, mother |-> -1, father |-> -1]

\* no function is being applied on its own: the driver runs
NoCall == [fn |-> "none"]

VARIABLES
    islands,          \* islands[j]: the population of island j
    i,                \* tick counter of main's outer loop
    j,                \* island index of main's inner loop
    pc,               \* position of the main thread
    best_score,       \* best fitness seen so far
    number_of_bests,  \* sequence number of the next checkpoint
    store,            \* the records on disk of this topology: sequence number -> genome
    best,             \* island_crossing's clone of the elite slices
    ev,               \* crossings done in the current island_crossing
    resumed,          \* whether the run was started with "resume"
    printed,          \* printed[j]: the last "Best score" printed for island j, -1 if none
    saved,            \* the save_file calls of this run, in order
    event,            \* the last crossing of the current island_crossing
    since,            \* ticks completed since the last migration or the start
    initial_best,     \* the value best_score started from
    highest,          \* the largest high_score evaluated so far, -1 if none
    pending,          \* slots of island j whose evaluation no worker has started
    threads,          \* threads[w]: the slot worker w evaluates and where it is in test_ai
    scores,           \* the scores that have come back: slot -> score
    statics,          \* the write-once cells of physics/arm.rs that have been set
    call              \* a function of the engine applied on its own: name, arguments, outcome

\* the state of the parallel evaluation
par == <<pending, threads, scores, statics>>

vars == <<islands, i, j, pc, best_score, number_of_bests, store, best, ev,
          resumed, printed, saved, event, since, initial_best, highest,
          pending, threads, scores, statics, call>>

(* ------------------------------ helpers ------------------------------ *)

Max(a, b) == IF a >= b THEN a ELSE b

Min(a, b) == IF a <= b THEN a ELSE b

\* (best_proportion * n as f32) as usize
number_of_fittest_of(best_proportion, n) == (best_proportion[1] * n) \div best_proportion[2]

\* the external fitness function: deterministic, a function of the genome alone
test_ai(ai) == ai

\* ai_maker: a freshly, randomly initialised genome can be any genome
ai_maker == Genomes

\* init_island_population: ISLAND_POPULATION fresh genomes
init_island_population == [1 .. ISLAND_POPULATION -> ai_maker]

\* make_distinct without the resampling loop: the two draws may coincide
make_distinct_unchecked(max) == (0 .. (max - 1)) \X (0 .. (max - 1))

\* make_distinct(max): two different indices below max; no result for max < 2
make_distinct(max) == {p \in (0 .. (max - 1)) \X (0 .. (max - 1)) : p[1] # p[2]}

\* make_offspring: each of the six modes ends in a jiggle, whose noise has
\* full support, so the offspring can be any genome
make_offspring(mother, father) == Genomes

\* insertion of one scored genome into a list sorted by score descending,
\* after every element that does not compare less (the sort is stable)
RECURSIVE InsertDesc(_, _)
InsertDesc(s, x) ==
    IF s = <<>> THEN <<x>>
    ELSE IF s[1][1] >= x[1] THEN <<s[1]>> \o InsertDesc(Tail(s), x)
    ELSE <<x>> \o s

\* the comparison of sort_by with its operands swapped: ascending
RECURSIVE sort_by_ascending(_)
sort_by_ascending(s) ==
    IF s = <<>> THEN <<>>
    ELSE LET rest == sort_by_ascending(SubSeq(s, 1, Len(s) - 1))
             x == s[Len(s)]
             before == {k \in 1 .. Len(rest) : rest[k][1] <= x[1]}
         IN  SubSeq(rest, 1, Cardinality(before)) \o <<x>>
               \o SubSeq(rest, Cardinality(before) + 1, Len(rest))

\* ai_w_scores.sort_by(|a, b| b.0.partial_cmp(&a.0))
RECURSIVE sort_by(_)
sort_by(s) ==
    IF s = <<>> THEN <<>>
    ELSE InsertDesc(sort_by(SubSeq(s, 1, Len(s) - 1)), s[Len(s)])

\* island.clone().into_par_iter().map(|ai| (test_ai(&ai), ai)).collect()
ai_w_scores_of(island) == [k \in 1 .. Len(island) |-> <<test_ai(island[k]), island[k]>>]

\* make_new_generation with the offspring loop running to len - best_ones.len(),
\* the random genomes not counted
make_new_generation_miscounted(ais_w_score, best_proportion) ==
    LET n == Len(ais_w_score)
        number_of_fittest == number_of_fittest_of(best_proportion, n)
        best_ones == [k \in 1 .. number_of_fittest |-> ais_w_score[k][2]]
        offspring_count == n - number_of_fittest
    IN  {rnd \o off \o best_ones :
           rnd \in [1 .. ALWAYS_RAND_COUNT -> ai_maker],
           off \in [1 .. offspring_count -> Genomes]}

\* make_new_generation with the elites jiggled like every other member
make_new_generation_jiggled(ais_w_score, best_proportion) ==
    [1 .. Len(ais_w_score) -> Genomes]

\* make_new_generation: the generations it can return for a scored list
make_new_generation(ais_w_score, best_proportion) ==
    LET n == Len(ais_w_score)
        number_of_fittest == number_of_fittest_of(best_proportion, n)
        best_ones == [k \in 1 .. number_of_fittest |-> ais_w_score[k][2]]
        offspring_count == n - number_of_fittest - ALWAYS_RAND_COUNT
        offspring == UNION {make_offspring(best_ones[p[1] + 1], best_ones[p[2] + 1]) :
                              p \in make_distinct(number_of_fittest)}
    IN  IF offspring_count < 0 THEN {}
        ELSE {rnd \o off \o best_ones :
                rnd \in [1 .. ALWAYS_RAND_COUNT -> ai_maker],
                off \in [1 .. offspring_count -> offspring]}

(* --------------------------- checkpoint store ------------------------- *)

\* the listing as eval.rs uses it (eval.rs:47 hands its first element to a
\* two-argument extract_seq): the sequence numbers on disk, most recent first,
\* at most LIST_LIMIT.  The list() of base_ai.rs is ListableAI_list below.
RECURSIVE list(_)
list(st) ==
    IF DOMAIN st = {} THEN <<>>
    ELSE LET top == CHOOSE s \in DOMAIN st : \A t \in DOMAIN st : t <= s
             rest == list([s \in DOMAIN st \ {top} |-> st[s]])
         IN  SubSeq(<<top>> \o rest, 1, IF Len(rest) + 1 > LIST_LIMIT THEN LIST_LIMIT ELSE Len(rest) + 1)

\* save_file(&ai_naming(best_ai, seq)): writes the record best_<name>_<seq>
save_file(st, seq, ai) == [s \in DOMAIN st \cup {seq} |-> IF s = seq THEN ai ELSE st[s]]

\* resume_island returning the population with the records loaded and no fill pass
resume_island_unfilled(st) ==
    LET ai_fnames == list(st)
        loaded_best == [k \in 1 .. Len(ai_fnames) |-> st[ai_fnames[k]]]
        elite == number_of_fittest_of(BEST_PROPORTION, ISLAND_POPULATION)
    IN  {[k \in 1 .. ISLAND_POPULATION |->
            IF k <= elite THEN loaded_best[((k - 1) % Len(loaded_best)) + 1] ELSE initial[k]] :
         initial \in init_island_population}

\* resume_island falling back to a fresh population when no record is listed
resume_island_fresh(st) ==
    LET ai_fnames == list(st)
        loaded_best == [k \in 1 .. Len(ai_fnames) |-> st[ai_fnames[k]]]
        elite == number_of_fittest_of(BEST_PROPORTION, ISLAND_POPULATION)
    IN  UNION {make_new_generation(
                 [k \in 1 .. ISLAND_POPULATION |->
                    <<0, IF k <= elite /\ Len(loaded_best) > 0
                         THEN loaded_best[((k - 1) % Len(loaded_best)) + 1]
                         ELSE initial[k]>>],
                 BEST_PROPORTION) : initial \in init_island_population}

\* resume_island: the populations it can return for the records on disk; none
\* when no record is listed, as i % loaded_best.len() panics (eval.rs:190)
resume_island(st) ==
    LET ai_fnames == list(st)
        loaded_best == [k \in 1 .. Len(ai_fnames) |-> st[ai_fnames[k]]]
        elite == number_of_fittest_of(BEST_PROPORTION, ISLAND_POPULATION)
    IN  IF elite > 0 /\ Len(loaded_best) = 0 THEN {}
        ELSE
        UNION {make_new_generation(
                 [k \in 1 .. ISLAND_POPULATION |->
                    <<0, IF k <= elite THEN loaded_best[((k - 1) % Len(loaded_best)) + 1]
                         ELSE initial[k]>>],
                 BEST_PROPORTION) : initial \in init_island_population}

(* ------------------------------- Init -------------------------------- *)

\* the records earlier runs can have left: numbered from 0 (eval.rs:55), each
\* saved because it beat the best before it (eval.rs:81)
LeftByRuns ==
    {st \in UNION {[0 .. (cnt - 1) -> Genomes] : cnt \in 1 .. MAX_RECORDS} :
        \A s \in DOMAIN st, t \in DOMAIN st : s < t => test_ai(st[s]) < test_ai(st[t])}

Common ==
    /\ i = 0 /\ j = 0
    /\ best = <<>> /\ ev = 0
    /\ printed = [k \in Islands |-> -1]
    /\ saved = <<>>
    /\ event = NoEvent
    /\ since = 0
    /\ initial_best = best_score
    /\ highest = -1
    /\ pending = {}
    /\ threads = [w \in Workers |-> Idle]
    /\ scores = <<>>

InitFresh ==
    /\ resumed = FALSE
    /\ store = <<>>
    /\ islands \in [Islands -> init_island_population]
    /\ number_of_bests = 0
    /\ best_score = 0
    /\ statics = {}
    /\ pc = "tick"
    /\ call = NoCall
    /\ Common

InitResume ==
    /\ resumed = TRUE
    /\ store \in LeftByRuns
    /\ islands \in [Islands -> resume_island(store)]
    /\ number_of_bests = list(store)[1]
    /\ best_score = test_ai(islands[0][1])
    /\ statics = AllStatics
    /\ pc = "tick"
    /\ call = NoCall
    /\ Common

Init == InitFresh \/ InitResume

(* ------------------------------ actions ------------------------------ *)

\* the test of eval.rs:81 with >= for >
is_new_best_or_equal(high_score, current) == high_score >= current

\* eval.rs:81: a new best is a strictly higher score
is_new_best(high_score, current) == high_score > current

\* the new generation assigned to every island instead of island j
replace_every_island(isl, k, generation) == [m \in DOMAIN isl |-> generation]

\* eval.rs:92: *island = make_new_generation(..), island being islands[j]
replace_island(isl, k, generation) == [isl EXCEPT ![k] = generation]

\* eval.rs:68-92: rank, track the best, save, replace island j; then the loop steps
FinishIsland(ai_w_scores) ==
    LET ranked == sort_by(ai_w_scores)
        high_score == ranked[1][1]
        best_ai == ranked[1][2]
    IN  /\ IF is_new_best(high_score, best_score)
           THEN /\ best_score' = high_score
                /\ store' = save_file(store, number_of_bests, best_ai)
                /\ saved' = Append(saved, [seq |-> number_of_bests, ai |-> best_ai])
                /\ number_of_bests' = number_of_bests + 1
           ELSE UNCHANGED <<best_score, store, saved, number_of_bests>>
        /\ printed' = [printed EXCEPT ![j] = high_score]
        /\ highest' = Max(highest, high_score)
        /\ \E generation \in make_new_generation(ranked, BEST_PROPORTION) :
              islands' = replace_island(islands, j, generation)
        /\ IF j < ISLANDS - 1
           THEN /\ j' = j + 1
                /\ pc' = "tick"
                /\ UNCHANGED <<i, since>>
           ELSE /\ j' = 0
                /\ since' = since + 1
                /\ IF i % MIGRATION_PERIOD = 0
                   THEN /\ pc' = "crossing" /\ i' = i
                   ELSE /\ i' = i + 1
                        /\ pc' = IF i + 1 < TICKS THEN "tick" ELSE "done"
        /\ UNCHANGED <<best, ev, resumed, event, initial_best, call>>

\* eval.rs:61-93 for one island, the evaluation taken as one step
ProcessIsland ==
    /\ pc = "tick"
    /\ FinishIsland(ai_w_scores_of(islands[j]))
    /\ statics' = AllStatics
    /\ UNCHANGED <<pending, threads, scores>>

fittest_start ==
    ISLAND_POPULATION - number_of_fittest_of(BEST_PROPORTION, ISLAND_POPULATION)

\* a crossing that writes the last slots of the island, where the elites are
crossing_slots_last == (ISLAND_POPULATION - ALWAYS_RAND_COUNT) .. (ISLAND_POPULATION - 1)

\* a crossing that may write any slot of the island
crossing_slots_any == 0 .. (ISLAND_POPULATION - 1)

\* eval.rs:125: rand::random_range(0..ALWAYS_RAND_COUNT)
crossing_slots == 0 .. (ALWAYS_RAND_COUNT - 1)

\* eval.rs:106-114: clone the elite slice of every island
CrossingBegin ==
    /\ pc = "crossing"
    /\ best = <<>>
    /\ best' = [k \in Islands |-> SubSeq(islands[k], fittest_start + 1, Len(islands[k]))]
    /\ ev' = 0
    /\ pc' = "crossing"
    /\ UNCHANGED <<islands, i, j, best_score, number_of_bests, store, resumed,
                   printed, saved, event, since, initial_best, highest, par, call>>

\* eval.rs:117-126: one crossing; observed says whether the crossing is logged in event
Crossing(observed) ==
    /\ pc = "crossing"
    /\ best # <<>>
    /\ ev < CROSSINGS
    /\ \E p \in make_distinct(ISLANDS) :
         LET mothers_island == p[1]
             fathers_island == p[2]
             fittest_count == Len(best[0])
         IN \E mk \in 0 .. (fittest_count - 1), fk \in 0 .. (fittest_count - 1),
               slot \in crossing_slots :
              LET mother == best[mothers_island][mk + 1]
                  father == best[fathers_island][fk + 1]
              IN \E offspring \in make_offspring(mother, father) :
                   /\ islands' = [islands EXCEPT ![mothers_island][slot + 1] = offspring]
                   /\ event' = IF observed
                               THEN [mothers_island |-> mothers_island,
                                     fathers_island |-> fathers_island,
                                     mother |-> mother, father |-> father]
                               ELSE NoEvent
    /\ ev' = ev + 1
    /\ UNCHANGED <<i, j, pc, best_score, number_of_bests, store, best, resumed,
                   printed, saved, since, initial_best, highest, par, call>>

\* eval.rs:117 and 95-98: the crossing loop ends, island_crossing returns, next tick
CrossingEnd ==
    /\ pc = "crossing"
    /\ best # <<>>
    /\ ev = CROSSINGS
    /\ best' = <<>>
    /\ ev' = 0
    /\ event' = NoEvent
    /\ since' = 0
    /\ i' = i + 1
    /\ pc' = IF i + 1 < TICKS THEN "tick" ELSE "done"
    /\ UNCHANGED <<islands, j, best_score, number_of_bests, store, resumed,
                   printed, saved, initial_best, highest, par, call>>

Next == ProcessIsland \/ CrossingBegin \/ Crossing(FALSE) \/ CrossingEnd

\* a run, fresh or resumed
Spec == Init /\ [][Next]_vars

NextCrossing == ProcessIsland \/ CrossingBegin \/ Crossing(TRUE) \/ CrossingEnd

\* a fresh run whose crossings are logged
SpecCrossing == InitFresh /\ [][NextCrossing]_vars

(* ----------------- the evaluation, thread by thread ------------------- *)

main_vars == <<islands, i, j, best_score, number_of_bests, store, best, ev,
               resumed, printed, saved, event, since, initial_best, highest, call>>

\* eval.rs:63-65: the island is cloned and handed to the thread pool
StartEvaluation ==
    /\ pc = "tick"
    /\ pc' = "evaluating"
    /\ pending' = 1 .. Len(islands[j])
    /\ scores' = <<>>
    /\ UNCHANGED <<main_vars, threads, statics>>

\* OnceLock::set of arm.rs:93-96: stores only into an empty cell; and_then runs
\* the next set only after an Ok, so the first Err skips the rest of the chain
OnceLockSet(w, cell, next) ==
    IF cell \in statics
    THEN /\ threads' = [threads EXCEPT ![w].at = "normalize_x"]
         /\ UNCHANGED statics
    ELSE /\ threads' = [threads EXCEPT ![w].at = next]
         /\ statics' = statics \cup {cell}

\* eval.rs:66, sim_for_ai.rs:57, world.rs:113-122, arm.rs:43-93: a worker takes a
\* genome, builds its world and arm and reaches MIN_X.set
TakeGenome(w) ==
    /\ pc = "evaluating"
    /\ threads[w] = Idle
    /\ \E k \in pending :
         /\ pending' = pending \ {k}
         /\ IF "MIN_X" \in statics
            THEN /\ threads' = [threads EXCEPT ![w] = [slot |-> k, at |-> "normalize_x"]]
                 /\ UNCHANGED statics
            ELSE /\ threads' = [threads EXCEPT ![w] = [slot |-> k, at |-> "X_RANGE.set"]]
                 /\ statics' = statics \cup {"MIN_X"}
    /\ UNCHANGED <<main_vars, pc, scores>>

\* arm.rs:94-96: the rest of the chain
SetStatic(w) ==
    /\ pc = "evaluating"
    /\ \/ threads[w].at = "X_RANGE.set" /\ OnceLockSet(w, "X_RANGE", "MIN_Y.set")
       \/ threads[w].at = "MIN_Y.set" /\ OnceLockSet(w, "MIN_Y", "Y_RANGE.set")
       \/ threads[w].at = "Y_RANGE.set" /\ OnceLockSet(w, "Y_RANGE", "normalize_x")
    /\ UNCHANGED <<main_vars, pc, pending, scores>>

\* arm.rs:247-249, first called from sim_for_ai.rs:65: MIN_X.get().unwrap() and
\* X_RANGE.get().unwrap(); an unset cell makes the unwrap panic
normalize_x(w) ==
    /\ pc = "evaluating"
    /\ threads[w].at = "normalize_x"
    /\ IF {"MIN_X", "X_RANGE"} \subseteq statics
       THEN threads' = [threads EXCEPT ![w].at = "normalize_y"] /\ pc' = pc
       ELSE threads' = [threads EXCEPT ![w].at = "panicked"] /\ pc' = "panicked"
    /\ UNCHANGED <<main_vars, pending, scores, statics>>

\* arm.rs:251-253, then the rest of test_ai (sim_for_ai.rs:70-116), whose later
\* normalisations read cells already seen set; the score comes back
normalize_y(w) ==
    /\ pc = "evaluating"
    /\ threads[w].at = "normalize_y"
    /\ IF {"MIN_Y", "Y_RANGE"} \subseteq statics
       THEN /\ scores' = [k \in DOMAIN scores \cup {threads[w].slot} |->
                            IF k = threads[w].slot THEN test_ai(islands[j][k]) ELSE scores[k]]
            /\ threads' = [threads EXCEPT ![w] = Idle]
            /\ pc' = pc
       ELSE /\ threads' = [threads EXCEPT ![w].at = "panicked"]
            /\ pc' = "panicked"
            /\ UNCHANGED scores
    /\ UNCHANGED <<main_vars, pending, statics>>

\* collect() hands the list over without waiting for the workers still running
all_taken == pending = {}

\* eval.rs:67: collect() returns when every genome of the island has its score
all_returned == pending = {} /\ \A w \in Workers : threads[w] = Idle

\* eval.rs:67-92: the scores are collected in slot order, then rank, save, replace
Collect ==
    /\ pc = "evaluating"
    /\ all_returned
    /\ FinishIsland([k \in 1 .. Len(islands[j]) |->
                       <<IF k \in DOMAIN scores THEN scores[k] ELSE 0, islands[j][k]>>])
    /\ scores' = <<>>
    /\ UNCHANGED <<pending, threads, statics>>

NextThreads ==
    \/ StartEvaluation
    \/ \E w \in Workers : TakeGenome(w) \/ SetStatic(w) \/ normalize_x(w) \/ normalize_y(w)
    \/ Collect
    \/ CrossingBegin \/ Crossing(FALSE) \/ CrossingEnd

\* a fresh run with the worker threads of the evaluation interleaved
SpecThreads == InitFresh /\ [][NextThreads]_vars

(* ----------------- functions applied on their own --------------------- *)

\* main has not started: no population, nothing evaluated, nothing on disk
NotStarted ==
    /\ resumed = FALSE
    /\ store = <<>>
    /\ islands = <<>>
    /\ number_of_bests = 0
    /\ best_score = 0
    /\ statics = {}
    /\ pc = "off"
    /\ Common

\* everything but call: the driver's state
driver_vars == <<islands, i, j, pc, best_score, number_of_bests, store, best, ev,
                 resumed, printed, saved, event, since, initial_best, highest, par>>

\* SMALLEST_SD of eval.rs:17, in thousandths
SMALLEST_SD == 10

\* eval.rs:137-147 with the 0.075 and 0.05 steps exchanged
scale_factor_exchanged(score) ==
    IF score < 50 THEN 150
    ELSE IF score < 75 THEN 50
    ELSE IF score < 90 THEN 75
    ELSE IF score < 95 THEN 20
    ELSE SMALLEST_SD

\* eval.rs:137-147: the factor max_amp is multiplied by; the score is in
\* hundredths and the factor in thousandths
scale_factor(score) ==
    IF score < 50 THEN 150
    ELSE IF score < 75 THEN 75
    ELSE IF score < 90 THEN 50
    ELSE IF score < 95 THEN 20
    ELSE SMALLEST_SD

\* the scores a population's best genome can have, in hundredths
Scores == 0 .. MAX_SCORE

InitScale ==
    /\ NotStarted
    /\ call \in {[fn |-> "scale_factor", arg |-> <<s, t>>, ret |-> "pending", val |-> <<0, 0>>] :
                   s \in Scores, t \in Scores}

\* eval.rs:135-147 for the best scores of two generations
ApplyScale ==
    /\ call.fn = "scale_factor" /\ call.ret = "pending"
    /\ call' = [call EXCEPT !.ret = "returned",
                            !.val = <<scale_factor(call.arg[1]), scale_factor(call.arg[2])>>]
    /\ UNCHANGED driver_vars

\* the mutation scale computed for pairs of best scores
SpecScale == InitScale /\ [][ApplyScale]_vars

(* ------------------------ record file names -------------------------- *)
(* A file name is a sequence of characters, each a one-character string. *)

Letters ==
    {"a", "b", "c", "d", "e", "f", "g", "h", "i", "j", "k", "l", "m",
     "n", "o", "p", "q", "r", "s", "t", "u", "v", "w", "x", "y", "z",
     "A", "B", "C", "D", "E", "F", "G", "H", "I", "J", "K", "L", "M",
     "N", "O", "P", "Q", "R", "S", "T", "U", "V", "W", "X", "Y", "Z"}

Digits == <<"0", "1", "2", "3", "4", "5", "6", "7", "8", "9">>

\* the Display of a usize, as format! writes it: decimal, no leading zeros
RECURSIVE to_string(_)
to_string(n) ==
    IF n < 10 THEN <<Digits[n + 1]>>
    ELSE to_string(n \div 10) \o <<Digits[(n % 10) + 1]>>

\* str::parse::<usize> of a run of decimal digits
RECURSIVE parse_usize(_)
parse_usize(ds) ==
    IF ds = <<>> THEN 0
    ELSE 10 * parse_usize(SubSeq(ds, 1, Len(ds) - 1))
           + (CHOOSE v \in 0 .. 9 : Digits[v + 1] = ds[Len(ds)])

\* eval.rs:101-103: format!("best_{}_{i}", network_name)
ai_naming(network_name, seq) ==
    <<"b", "e", "s", "t", "_">> \o network_name \o <<"_">> \o to_string(seq)

mpk == <<".", "m", "p", "k">>

starts_with(str, prefix) ==
    Len(str) >= Len(prefix) /\ SubSeq(str, 1, Len(prefix)) = prefix

ends_with(str, suffix) ==
    Len(str) >= Len(suffix) /\ SubSeq(str, Len(str) - Len(suffix) + 1, Len(str)) = suffix

\* the length of the longest run of characters of class starting at position p
RECURSIVE Run(_, _, _)
Run(str, p, class) ==
    IF p <= Len(str) /\ str[p] \in class THEN 1 + Run(str, p + 1, class) ELSE 0

\* REG with the space missing from the class of the name: [A-Za-z]+ for [A-Z a-z]+
REG_at_no_space(str, s) ==
    LET first == Run(str, s, Letters)
        p2 == s + first + 1
        second == Run(str, p2, Letters)
        p3 == p2 + second + 1
        seq == Run(str, p3, {Digits[k] : k \in 1 .. 10})
        p4 == p3 + seq
    IN  IF /\ first >= 1 /\ p2 - 1 <= Len(str) /\ str[p2 - 1] = "_"
           /\ second >= 1 /\ p3 - 1 <= Len(str) /\ str[p3 - 1] = "_"
           /\ seq >= 1 /\ p4 + 3 <= Len(str) /\ SubSeq(str, p4, p4 + 3) = mpk
        THEN SubSeq(str, p3, p4 - 1)
        ELSE <<>>

\* a match of REG starting at position s: [A-Za-z]+ _ [A-Z a-z]+ _ [0-9]+ \.mpk;
\* every group is followed by a character outside its class, so a group can
\* only be the longest run.  The result is the seq group, <<>> when no match
\* starts at s (a seq group is never empty).
REG_at(str, s) ==
    LET first == Run(str, s, Letters)
        p2 == s + first + 1
        second == Run(str, p2, Letters \cup {" "})
        p3 == p2 + second + 1
        seq == Run(str, p3, {Digits[k] : k \in 1 .. 10})
        p4 == p3 + seq
    IN  IF /\ first >= 1 /\ p2 - 1 <= Len(str) /\ str[p2 - 1] = "_"
           /\ second >= 1 /\ p3 - 1 <= Len(str) /\ str[p3 - 1] = "_"
           /\ seq >= 1 /\ p4 + 3 <= Len(str) /\ SubSeq(str, p4, p4 + 3) = mpk
        THEN SubSeq(str, p3, p4 - 1)
        ELSE <<>>

\* base_ai.rs:165-166 and 169: REG.captures(filename), the leftmost match
REG_captures(filename) ==
    LET starts == {s \in 1 .. Len(filename) : REG_at(filename, s) # <<>>}
    IN  IF starts = {} THEN <<>>
        ELSE REG_at(filename, CHOOSE s \in starts : \A t \in starts : s <= t)

\* base_ai.rs:168-176: the unwrap of a failed capture panics (ok = FALSE)
extract_seq(filename) ==
    LET seq == REG_captures(filename)
    IN  IF seq = <<>> THEN [ok |-> FALSE, val |-> 0]
        ELSE [ok |-> TRUE, val |-> parse_usize(seq)]

\* the genome's own topology name and another one
own_name == <<"s">>

other_name == <<"b", "i", "g">>

\* the saved names ordered by sequence number, highest first
RECURSIVE sorted_by_seq(_)
sorted_by_seq(files) ==
    IF files = {} THEN <<>>
    ELSE LET top == CHOOSE f \in files :
                       \A g \in files : extract_seq(g).val <= extract_seq(f).val
         IN  <<top>> \o sorted_by_seq(files \ {top})

\* base_ai.rs:135-163: the entries of the directory that start with
\* best_<name>_ and end with .mpk, the extension stripped, sorted by extract_seq
\* descending, cut to 30.  sort_by calls the comparison as soon as there are
\* two names, on every name at least once, and a panic of extract_seq is a
\* panic of list (ok = FALSE).
ListableAI_list(entries, network_name) ==
    LET expected_prefix == <<"b", "e", "s", "t", "_">> \o network_name \o <<"_">>
        saved_files == {SubSeq(f, 1, Len(f) - Len(mpk)) :
                          f \in {e \in entries : starts_with(e, expected_prefix) /\ ends_with(e, mpk)}}
        sorted == sorted_by_seq(saved_files)
    IN  IF Cardinality(saved_files) >= 2 /\ \E f \in saved_files : ~extract_seq(f).ok
        THEN [ok |-> FALSE, val |-> <<>>]
        ELSE [ok |-> TRUE, val |-> SubSeq(sorted, 1, Min(Len(sorted), LIST_LIMIT))]

\* names a directory can hold: records of this topology and of another one,
\* a record whose sequence number is not a number, and a file that is no record
CandidateFiles ==
    {ai_naming(own_name, q) \o mpk : q \in 0 .. MAX_FILES}
      \cup {ai_naming(other_name, 7) \o mpk,
            <<"b", "e", "s", "t", "_">> \o own_name \o <<"_", "x">> \o mpk,
            ai_naming(own_name, 1) \o <<".", "t", "x", "t">>}

\* network names of letters and spaces
NetworkNames == {own_name, other_name, <<"t", "e", " ", "s", "t">>, <<" ">>, <<"B", " ", "a">>}

InitRecords ==
    /\ NotStarted
    /\ \/ call \in {[fn |-> "list", arg |-> entries, ret |-> "pending", val |-> <<>>] :
                      entries \in SUBSET CandidateFiles}
       \/ call \in {[fn |-> "extract_seq", arg |-> [network_name |-> name, seq |-> q],
                     ret |-> "pending", val |-> 0] :
                      name \in NetworkNames, q \in 0 .. MAX_SEQ}

\* sample_specimen.list() in a directory holding the files of call.arg
ApplyList ==
    /\ call.fn = "list" /\ call.ret = "pending"
    /\ LET r == ListableAI_list(call.arg, own_name)
       IN  call' = [call EXCEPT !.ret = IF r.ok THEN "returned" ELSE "panicked", !.val = r.val]
    /\ UNCHANGED driver_vars

\* extract_seq of the file name save_file gives the record ai_naming names
ApplyExtractSeq ==
    /\ call.fn = "extract_seq" /\ call.ret = "pending"
    /\ LET r == extract_seq(ai_naming(call.arg.network_name, call.arg.seq) \o mpk)
       IN  call' = [call EXCEPT !.ret = IF r.ok THEN "returned" ELSE "panicked", !.val = r.val]
    /\ UNCHANGED driver_vars

\* listing a directory of records, and reading a sequence number back from a name
SpecRecords == InitRecords /\ [][ApplyList \/ ApplyExtractSeq]_vars

(* --------------------- the reproduction operators --------------------- *)
(* A tensor is its shape and its entries in row-major order; a Linear is  *)
(* a weight tensor and a bias tensor (every layer is built with_bias).    *)

\* the values an entry takes here; none is zero, so an entry blanked by a mask shows
Vals == {1, 2}

\* the draws of Uniform(0, 1) tried for a mask entry, in tenths: below, at and above 0.5
Baselines == {4, 5, 6}

Size(shape) == IF Len(shape) = 1 THEN shape[1] ELSE shape[1] * shape[2]

Tensors(shape) == {[shape |-> shape, data |-> dt] : dt \in [1 .. Size(shape) -> Vals]}

\* Linear layers with d_output outputs and one input
LinearsOf(d_output) ==
    {[weight |-> w, bias |-> b] : w \in Tensors(<<d_output, 1>>), b \in Tensors(<<d_output>>)}

Linears == UNION {LinearsOf(d_output) : d_output \in 1 .. MAX_OUTPUTS}

\* combine_bw_linear with the parents exchanged: weight of b, bias of a
combine_bw_linear_exchanged(a, b) == [weight |-> b.weight, bias |-> a.bias]

\* base_ai.rs:46-51: the weight of a and the bias of b, whatever their shapes
combine_bw_linear(a, b) == [weight |-> a.weight, bias |-> b.bias]

\* t.mask_where(mask, zeros): the entries where the mask is set become zero
mask_where(t, mask) == [t EXCEPT !.data = [k \in DOMAIN t.data |-> IF mask[k] THEN 0 ELSE t.data[k]]]

\* interleave with a_mask drawn by lower_equal_elem: at 0.5 both masks are set
interleave_overlapping(a, b) ==
    IF a.shape # b.shape THEN [ok |-> FALSE, vals |-> {}]
    ELSE [ok |-> TRUE,
          vals |-> {LET a_mask == [k \in DOMAIN baseline |-> baseline[k] <= 5]
                        b_mask == [k \in DOMAIN baseline |-> baseline[k] >= 5]
                        a_vals == mask_where(a, a_mask)
                        b_vals == mask_where(b, b_mask)
                    IN  [shape |-> a.shape,
                         data |-> [k \in DOMAIN a.data |-> a_vals.data[k] + b_vals.data[k]]] :
                    baseline \in [DOMAIN a.data -> Baselines]}]

\* base_ai.rs:72-85: assert_eq! on the shapes (ok = FALSE is its panic), then
\* one result for every draw of the baseline
interleave(a, b) ==
    IF a.shape # b.shape THEN [ok |-> FALSE, vals |-> {}]
    ELSE [ok |-> TRUE,
          vals |-> {LET a_mask == [k \in DOMAIN baseline |-> baseline[k] < 5]
                        b_mask == [k \in DOMAIN baseline |-> baseline[k] >= 5]
                        a_vals == mask_where(a, a_mask)
                        b_vals == mask_where(b, b_mask)
                    IN  [shape |-> a.shape,
                         data |-> [k \in DOMAIN a.data |-> a_vals.data[k] + b_vals.data[k]]] :
                    baseline \in [DOMAIN a.data -> Baselines]}]

\* base_ai.rs:53-70: weight and bias interleaved, each with its own baseline
interleave_bw_linear(a, b) ==
    LET weight == interleave(a.weight, b.weight)
        bias == interleave(a.bias, b.bias)
    IN  IF weight.ok /\ bias.ok
        THEN [ok |-> TRUE, vals |-> {[weight |-> w, bias |-> bs] : w \in weight.vals, bs \in bias.vals}]
        ELSE [ok |-> FALSE, vals |-> {}]

InitLinear ==
    /\ NotStarted
    /\ call \in {[fn |-> f, arg |-> <<a, b>>, ret |-> "pending", val |-> a] :
                   f \in {"combine_bw_linear", "interleave_bw_linear"},
                   a \in Linears, b \in Linears}

\* combine_bw_linear(a, b)
ApplyCombine ==
    /\ call.fn = "combine_bw_linear" /\ call.ret = "pending"
    /\ call' = [call EXCEPT !.ret = "returned",
                            !.val = combine_bw_linear(call.arg[1], call.arg[2])]
    /\ UNCHANGED driver_vars

\* interleave_bw_linear(a, b)
ApplyInterleave ==
    /\ call.fn = "interleave_bw_linear" /\ call.ret = "pending"
    /\ LET r == interleave_bw_linear(call.arg[1], call.arg[2])
       IN  IF r.ok
           THEN \E v \in r.vals : call' = [call EXCEPT !.ret = "returned", !.val = v]
           ELSE call' = [call EXCEPT !.ret = "panicked"]
    /\ UNCHANGED driver_vars

\* the operators on one layer, for every pair of layers
SpecLinear == InitLinear /\ [][ApplyCombine \/ ApplyInterleave]_vars

\* small_ai.rs:12-16 and 86-104: the three layers of a SmallAI, in the order the
\* struct declares them; every genome of a run is built with the same shapes
SmallAIs == [input : LinearsOf(1), output : LinearsOf(1), hidden : LinearsOf(1)]

\* two layers that differ in weight and in bias
TwoLinears ==
    {l \in LinearsOf(1) : l.weight.data = l.bias.data}

\* ai.rs:10-16: the five layers of the big network
BigAIs ==
    [input : TwoLinears, output : TwoLinears, hidden_1 : TwoLinears,
     hidden_2 : TwoLinears, hidden_3 : TwoLinears]

\* base_ai.rs:32-44: every entry gets its own Gaussian noise added, so the
\* result can be any layer of the same shape
jiggle_linear(ln) ==
    {l \in Linears : l.weight.shape = ln.weight.shape /\ l.bias.shape = ln.bias.shape}

\* small_ai.rs:18-24 and ai.rs:62-70: every layer jiggled
jiggle(ai) ==
    {g \in [DOMAIN ai -> UNION {jiggle_linear(ai[layer]) : layer \in DOMAIN ai}] :
        \A layer \in DOMAIN ai : g[layer] \in jiggle_linear(ai[layer])}

\* small_ai.rs:25-30: the struct offspring builds, before .jiggle(d)
SmallAI_offspring(self, other_parent) ==
    [input |-> combine_bw_linear(self.input, other_parent.input),
     output |-> combine_bw_linear(self.output, other_parent.output),
     hidden |-> combine_bw_linear(self.hidden, other_parent.hidden)]

\* offspring_layers alternating in the order of the forward pass: input, hidden, output
SmallAI_offspring_layers_forward(self, other_parent) ==
    [input |-> self.input, output |-> self.output, hidden |-> other_parent.hidden]

\* small_ai.rs:52-57: the struct offspring_layers builds, before .jiggle(d)
SmallAI_offspring_layers(self, other_parent) ==
    [input |-> self.input, output |-> other_parent.output, hidden |-> self.hidden]

\* ai.rs:169-176: the same for the five layers of the big network
AI_offspring_layers(self, other_parent) ==
    [input |-> self.input, output |-> other_parent.output, hidden_1 |-> self.hidden_1,
     hidden_2 |-> other_parent.hidden_2, hidden_3 |-> self.hidden_3]

InitGenome ==
    /\ NotStarted
    /\ \/ call \in {[fn |-> f, arg |-> <<a, b>>, ret |-> "pending", val |-> a] :
                      f \in {"offspring", "offspring_layers"}, a \in SmallAIs, b \in SmallAIs}
       \/ call \in {[fn |-> "AI::offspring_layers", arg |-> <<a, b>>, ret |-> "pending", val |-> a] :
                      a \in BigAIs, b \in BigAIs}

\* the struct expression of the operator: the genome handed to jiggle
Build ==
    /\ call.ret = "pending"
    /\ \/ call.fn = "offspring"
          /\ call' = [call EXCEPT !.ret = "built", !.val = SmallAI_offspring(call.arg[1], call.arg[2])]
       \/ call.fn = "offspring_layers"
          /\ call' = [call EXCEPT !.ret = "built", !.val = SmallAI_offspring_layers(call.arg[1], call.arg[2])]
       \/ call.fn = "AI::offspring_layers"
          /\ call' = [call EXCEPT !.ret = "built", !.val = AI_offspring_layers(call.arg[1], call.arg[2])]
    /\ UNCHANGED driver_vars

\* .jiggle(d): the operator returns the jiggled genome; the parents are not looked at again
Jiggle ==
    /\ call.ret = "built"
    /\ \E g \in jiggle(call.val) : call' = [call EXCEPT !.ret = "returned", !.val = g, !.arg = <<>>]
    /\ UNCHANGED driver_vars

\* the operators on whole genomes, for every pair of parents
SpecGenome == InitGenome /\ [][Build \/ Jiggle]_vars

(* ------------------ the fitness of a genome, as f32 ------------------- *)
(* An f32 is NaN, +infinity or a finite value.  One coordinate of the     *)
(* world stands for the 28 that save_world_state records.                 *)

NaN == [kind |-> "nan", v |-> 0]

Infinity == [kind |-> "inf", v |-> 0]

Finite(v) == [kind |-> "fin", v |-> v]

\* the values tried for a coordinate of the world
Coordinates == 0 .. 2

\* sim_for_ai.rs:126: ((a - b) / a).abs(), in halves: 0/0 is NaN, x/0 is infinite
relative_error(a, b) ==
    IF a = 0 THEN (IF b = 0 THEN NaN ELSE Infinity)
    ELSE Finite((2 * (IF a >= b THEN a - b ELSE b - a)) \div a)

\* scorer returning 1 / mape: the + 1 forgotten, so an unmoved world scores infinity
scorer_without_offset(init_state, end_state) ==
    LET mape == relative_error(init_state, end_state)
    IN  IF mape.kind = "nan" THEN NaN
        ELSE IF mape.kind = "inf" THEN Finite(0)
        ELSE IF mape.v = 0 THEN Infinity
        ELSE Finite(200 \div mape.v)

\* sim_for_ai.rs:119-131: 1 / (mape + 1), in hundredths
scorer(init_state, end_state) ==
    LET mape == relative_error(init_state, end_state)
    IN  IF mape.kind = "nan" THEN NaN
        ELSE IF mape.kind = "inf" THEN Finite(0)
        ELSE Finite(200 \div (mape.v + 2))

\* f32::partial_cmp: None as soon as one side is NaN
partial_cmp(x, y) ==
    IF x.kind = "nan" \/ y.kind = "nan" THEN "None"
    ELSE IF x.kind = "inf" /\ y.kind = "inf" THEN "Equal"
    ELSE IF x.kind = "inf" THEN "Greater"
    ELSE IF y.kind = "inf" THEN "Less"
    ELSE IF x.v < y.v THEN "Less"
    ELSE IF x.v > y.v THEN "Greater"
    ELSE "Equal"

\* a sort whose comparison unwraps partial_cmp: with two or more elements every
\* element is compared at least once, so one NaN makes it panic
sort_panics(fs) == Len(fs) >= 2 /\ \E k \in 1 .. Len(fs) : fs[k].kind = "nan"

\* the elements of fs in ascending order; fs holds no NaN
RECURSIVE ascending(_)
ascending(fs) ==
    IF fs = <<>> THEN <<>>
    ELSE LET rest == ascending(SubSeq(fs, 1, Len(fs) - 1))
             x == fs[Len(fs)]
             before == {k \in 1 .. Len(rest) : partial_cmp(rest[k], x) # "Greater"}
         IN  SubSeq(rest, 1, Cardinality(before)) \o <<x>>
               \o SubSeq(rest, Cardinality(before) + 1, Len(rest))

f32_add(x, y) ==
    IF x.kind = "nan" \/ y.kind = "nan" THEN NaN
    ELSE IF x.kind = "inf" \/ y.kind = "inf" THEN Infinity
    ELSE Finite(x.v + y.v)

\* multiplication and division by a positive constant
f32_scale(x, mul, div) == IF x.kind = "fin" THEN Finite((x.v * mul) \div div) ELSE x

\* sim_for_ai.rs:106-116: the score of every step, sorted with an expect on the
\* comparison, then the weighted mean of median, last, lowest and highest
test_ai_score(init_state, end_states) ==
    LET saved_steps_scores == [t \in 1 .. Len(end_states) |-> scorer(init_state, end_states[t])]
        last_score == saved_steps_scores[Len(saved_steps_scores)]
        sorted == ascending(saved_steps_scores)
        len == Len(sorted)
    IN  IF sort_panics(saved_steps_scores) THEN [ok |-> FALSE, val |-> NaN]
        ELSE [ok |-> TRUE,
              val |-> f32_scale(f32_add(f32_add(f32_scale(sorted[(len \div 2) + 1], 10, 1),
                                                f32_scale(last_score, 5, 1)),
                                        f32_add(sorted[1], sorted[len])),
                                1, 17)]

\* eval.rs:137-147 on an f32: every comparison with NaN is false
scale_factor_f32(score) ==
    IF score.kind = "fin" THEN scale_factor(score.v) ELSE SMALLEST_SD

NoOutcome == [high_score |-> Finite(0), best_score |-> Finite(0), scale |-> 0]

InitEvaluate ==
    /\ NotStarted
    /\ call \in {[fn |-> "evaluate", arg |-> [init_state |-> a, end_states |-> e],
                  ret |-> "pending", val |-> NoOutcome] :
                   a \in Coordinates, e \in [1 .. EVALUATED -> [1 .. STEPS -> Coordinates]]}

\* eval.rs:64-92 and 135-147 for one island of a fresh run: every genome is
\* evaluated (a panic in a worker is a panic of the run), the scores are
\* sorted with an expect on the comparison, best_score follows the high score
\* and the mutation scale of the next generation is computed from it
EvaluateIsland ==
    /\ call.fn = "evaluate" /\ call.ret = "pending"
    /\ LET results == [g \in 1 .. EVALUATED |->
                         test_ai_score(call.arg.init_state, call.arg.end_states[g])]
           ai_w_scores == [g \in 1 .. EVALUATED |-> results[g].val]
           ranked == ascending(ai_w_scores)
           high_score == ranked[Len(ranked)]
       IN  IF (\E g \in 1 .. EVALUATED : ~results[g].ok) \/ sort_panics(ai_w_scores)
           THEN call' = [call EXCEPT !.ret = "panicked"]
           ELSE call' = [call EXCEPT
                           !.ret = "returned",
                           !.val = [high_score |-> high_score,
                                    best_score |-> IF partial_cmp(high_score, Finite(0)) = "Greater"
                                                   THEN high_score ELSE Finite(0),
                                    scale |-> scale_factor_f32(high_score)]]
    /\ UNCHANGED driver_vars

\* the evaluation of one island from the coordinates its worlds end in
SpecEvaluate == InitEvaluate /\ [][EvaluateIsland]_vars

(* ----------------------- saving and loading --------------------------- *)

\* HalfPrecisionSettings: an f32 is stored as an f16 and loses its low bits
half_precision(v) == 2 * (v \div 2)

\* eval.rs:34: the recorder is built with FullPrecisionSettings, an f32 is stored as it is
recorder_precision(v) == v

\* the layers of a genome in the order the struct declares them
layers_of(ai) ==
    IF "hidden" \in DOMAIN ai THEN <<"input", "output", "hidden">>
    ELSE <<"input", "output", "hidden_1", "hidden_2", "hidden_3">>

\* a tensor as the record stores it: its shape and its values at the recorder's precision
stored_tensor(t) == <<t.shape, [k \in DOMAIN t.data |-> recorder_precision(t.data[k])]>>

\* the named record of a genome: for every layer its name, weight and bias
serialize(ai) ==
    [k \in 1 .. Len(layers_of(ai)) |->
        [name |-> layers_of(ai)[k],
         weight |-> stored_tensor(ai[layers_of(ai)[k]].weight),
         bias |-> stored_tensor(ai[layers_of(ai)[k]].bias)]]

\* the module rebuilt from a record: every layer takes the item stored under its name
deserialize(record, specimen) ==
    [layer \in DOMAIN specimen |->
        LET item == record[CHOOSE k \in 1 .. Len(record) : record[k].name = layer]
        IN  [weight |-> [shape |-> item.weight[1], data |-> item.weight[2]],
             bias |-> [shape |-> item.bias[1], data |-> item.bias[2]]]]

\* AI::save_file(filename, recorder): the record is written to <filename>.mpk
write_file(files, filename, ai) ==
    [f \in DOMAIN files \cup {filename \o mpk} |->
        IF f = filename \o mpk THEN serialize(ai) ELSE files[f]]

\* AI::load_a_file(self, filename, recorder): self with the record of <filename>.mpk loaded
load_a_file(files, filename, specimen) == deserialize(files[filename \o mpk], specimen)

\* a freshly made genome that records are loaded into
sample_specimen == CHOOSE ai \in SmallAIs : \A layer \in DOMAIN ai : ai[layer].weight.data = <<1>>

\* the sequence number the genome is saved under
SavedSeq == 7

InitCheckpoint ==
    /\ NotStarted
    /\ call \in {[fn |-> "save_load",
                  arg |-> [genome |-> g, filename |-> ai_naming(name, SavedSeq)],
                  ret |-> "pending",
                  val |-> [files |-> write_file(<<>>, ai_naming(name, SavedSeq - 1), earlier),
                           genome |-> sample_specimen]] :
                   g \in SmallAIs, name \in {own_name, other_name},
                   earlier \in {a \in SmallAIs : \A layer \in DOMAIN a : a[layer] \in TwoLinears /\ a[layer] = a.input}}

\* eval.rs:86: best_ai.save_file(&ai_naming(best_ai, number_of_bests), &recorder)
SaveFile ==
    /\ call.fn = "save_load" /\ call.ret = "pending"
    /\ call' = [call EXCEPT !.ret = "saved",
                            !.val.files = write_file(call.val.files, call.arg.filename, call.arg.genome)]
    /\ UNCHANGED driver_vars

\* eval.rs:186: sample_specimen.clone().load_a_file(&fname, recorder)
LoadFile ==
    /\ call.fn = "save_load" /\ call.ret = "saved"
    /\ call' = [call EXCEPT !.ret = "returned",
                            !.val.genome = load_a_file(call.val.files, call.arg.filename, sample_specimen)]
    /\ UNCHANGED driver_vars

\* a genome saved next to an earlier record and loaded back
SpecCheckpoint == InitCheckpoint /\ [][SaveFile \/ LoadFile]_vars

(* ----------------------- the mutation scale --------------------------- *)

\* weight and bias entries of either sign
Weights == {-2, 1}

abs(v) == IF v < 0 THEN 0 - v ELSE v

\* the largest entry of a tensor, its sign kept
max_amp_for_tensor_signed(input) ==
    CHOOSE v \in {input.data[k] : k \in DOMAIN input.data} :
        \A k \in DOMAIN input.data : input.data[k] <= v

\* base_ai.rs:107-123: the entry of largest absolute value, made positive
max_amp_for_tensor(input) ==
    abs(CHOOSE v \in {input.data[k] : k \in DOMAIN input.data} :
            \A k \in DOMAIN input.data : abs(input.data[k]) <= abs(v))

\* base_ai.rs:125-129
max_amp_for_linear(input) ==
    Max(max_amp_for_tensor(input.weight), max_amp_for_tensor(input.bias))

\* small_ai.rs:68-82: the largest of the three layers
max_amp(ai) ==
    Max(max_amp_for_linear(ai.input),
        Max(max_amp_for_linear(ai.hidden), max_amp_for_linear(ai.output)))

\* eval.rs:135-147: best_score and max_amp are those of the first entry of the list;
\* in thousandths of the entries' unit
std_deviation(ais_w_score) == max_amp(ais_w_score[1][2]) * scale_factor(ais_w_score[1][1])

\* layers whose largest amplitude is a negative weight, a negative bias, or 1
SignedLinears ==
    {l \in [weight : [shape : {<<1, 1>>}, data : [1 .. 1 -> Weights]],
            bias : [shape : {<<1>>}, data : [1 .. 1 -> Weights]]] :
        l.weight.data # l.bias.data \/ l.weight.data = <<1>>}

SignedAIs == [input : SignedLinears, output : SignedLinears, hidden : SignedLinears]

\* best scores on either side of the steps, in hundredths
DeviationScores == {s \in Scores : s \in {49, 50, 75, 90, 95}}

\* the lists that main's descending sort hands to make_new_generation
Rankings ==
    {r \in (DeviationScores \X SignedAIs) \X
            (DeviationScores \X {a \in SignedAIs : a.input = a.output /\ a.output = a.hidden}) :
        r[2][1] \in {r[1][1], 49} /\ r[2][1] <= r[1][1]}

InitDeviation ==
    /\ NotStarted
    /\ call \in {[fn |-> "std_deviation", arg |-> r, ret |-> "pending",
                  val |-> [earlier |-> 0, std_deviation |-> 0]] : r \in Rankings}

\* eval.rs:135-149: the deviation of this call to make_new_generation
Deviation ==
    /\ call.fn = "std_deviation" /\ call.ret = "pending"
    /\ call' = [call EXCEPT !.ret = "returned", !.val.std_deviation = std_deviation(call.arg)]
    /\ UNCHANGED driver_vars

\* eval.rs:60-92: the next island or tick ranks its own population and calls again
NextRanking ==
    /\ call.fn = "std_deviation" /\ call.ret = "returned"
    /\ \E r \in Rankings :
          call' = [call EXCEPT !.arg = r, !.ret = "pending",
                               !.val = [earlier |-> call.val.std_deviation, std_deviation |-> 0]]
    /\ UNCHANGED driver_vars

\* the deviation over successive calls of make_new_generation
SpecDeviation == InitDeviation /\ [][Deviation \/ NextRanking]_vars

(* ------------------- make_distinct, draw by draw ---------------------- *)

\* the largest argument make_distinct is called with
MAX_DRAW == 6

\* rand::random_range(0..=max): max itself can be drawn
random_range_inclusive(max) == 0 .. max

\* rand::random_range(0..max): empty for max = 0, for which the call panics
random_range(max) == 0 .. (max - 1)

\* the loop left on the first draw
accepts_any(potential_specimen, specimen_one) == TRUE

\* eval.rs:202: the test that leaves the loop
accepts(potential_specimen, specimen_one) == potential_specimen # specimen_one

InitDistinct ==
    /\ NotStarted
    /\ call \in {[fn |-> "make_distinct", arg |-> max, ret |-> "pending", val |-> <<>>] :
                   max \in 0 .. MAX_DRAW}

\* eval.rs:198: let specimen_one = rand::random_range(0..max)
DrawOne ==
    /\ call.fn = "make_distinct" /\ call.ret = "pending"
    /\ IF random_range(call.arg) = {}
       THEN call' = [call EXCEPT !.ret = "panicked"]
       ELSE \E specimen_one \in random_range(call.arg) :
               call' = [call EXCEPT !.ret = "loop", !.val = <<specimen_one>>]
    /\ UNCHANGED driver_vars

\* eval.rs:200-205: one pass of the loop that draws potential_specimen
DrawPotential(potential_specimen) ==
    /\ call.fn = "make_distinct" /\ call.ret = "loop"
    /\ potential_specimen \in random_range(call.arg)
    /\ call' = [call EXCEPT
                  !.ret = IF accepts(potential_specimen, call.val[1]) THEN "returned" ELSE "loop",
                  !.val = <<call.val[1], potential_specimen>>]
    /\ UNCHANGED driver_vars

NextDistinct == DrawOne \/ \E potential_specimen \in 0 .. MAX_DRAW : DrawPotential(potential_specimen)

\* every value of the range keeps being drawn
FairDraws ==
    /\ WF_vars(DrawOne)
    /\ \A potential_specimen \in 0 .. MAX_DRAW : WF_vars(DrawPotential(potential_specimen))

\* one call of make_distinct under fair draws
SpecDistinct == InitDistinct /\ [][NextDistinct]_vars /\ FairDraws

(* ------------- make_new_generation, member by member ------------------ *)

\* the largest scored list handed to make_new_generation
MAX_POPULATION == 6

\* the proportions tried: a quarter (the configured 0.25), the driver's, three quarters, all
Proportions == {<<1, 4>>, BEST_PROPORTION, <<3, 4>>, <<1, 1>>}

\* a member of the new generation by where it comes from: ranks count from 0
random_member == [kind |-> "random", mother |-> -1, father |-> -1]

elite_member(k) == [kind |-> "elite", mother |-> k, father |-> k]

offspring_member(p) == [kind |-> "offspring", mother |-> p[1], father |-> p[2]]

\* the length of the loop without the random genomes taken off
offspring_range_without_random(len, best_ones_len, new_generation_len) == len - best_ones_len

\* eval.rs:161: ais_w_score.len() - best_ones.len() - new_generation.len(); a usize
\* difference below zero is kept as its two's complement value, which the loop
\* counts down through every other value before it reaches 0
offspring_range(len, best_ones_len, new_generation_len) == len - best_ones_len - new_generation_len

\* parents drawn among all the scored genomes
parents_among_all(number_of_fittest, len) == make_distinct(len)

\* eval.rs:162-163: mother and father index best_ones
parents(number_of_fittest, len) == make_distinct(number_of_fittest)

InitFill ==
    /\ NotStarted
    /\ call \in {[fn |-> "make_new_generation",
                  arg |-> [len |-> n, best_proportion |-> bp],
                  ret |-> "pending",
                  val |-> [new_generation |-> <<>>, left |-> 0]] :
                   n \in 0 .. MAX_POPULATION, bp \in Proportions}

\* eval.rs:135-161: the top entry is read, the elites are cloned, the random
\* genomes are made and the loop range is computed
FillBegin ==
    /\ call.fn = "make_new_generation" /\ call.ret = "pending"
    /\ LET number_of_fittest == number_of_fittest_of(call.arg.best_proportion, call.arg.len)
           new_generation == [k \in 1 .. ALWAYS_RAND_COUNT |-> random_member]
           range == offspring_range(call.arg.len, number_of_fittest, Len(new_generation))
       IN  \/ /\ call.arg.len = 0
              /\ call' = [call EXCEPT !.ret = "panicked"]
           \/ /\ call.arg.len > 0 /\ range < 0
              /\ call' = [call EXCEPT !.ret = "panicked", !.val.new_generation = new_generation]
           \/ /\ call.arg.len > 0
              /\ call' = [call EXCEPT !.ret = "filling",
                                      !.val = [new_generation |-> new_generation, left |-> range]]
    /\ UNCHANGED driver_vars

\* eval.rs:161-165: one pass of the loop; a wrapped range is followed for one pass
FillOffspring ==
    /\ call.fn = "make_new_generation" /\ call.ret = "filling"
    /\ call.val.left # 0
    /\ call.val.left > 0 \/ Len(call.val.new_generation) = ALWAYS_RAND_COUNT
    /\ LET number_of_fittest == number_of_fittest_of(call.arg.best_proportion, call.arg.len)
       IN  IF random_range(number_of_fittest) = {}
           THEN call' = [call EXCEPT !.ret = "panicked"]
           ELSE IF parents(number_of_fittest, call.arg.len) = {}
           THEN call' = [call EXCEPT !.ret = "looping"]
           ELSE \E p \in parents(number_of_fittest, call.arg.len) :
                   call' = [call EXCEPT
                              !.val.new_generation = Append(@, offspring_member(p)),
                              !.val.left = @ - 1]
    /\ UNCHANGED driver_vars

\* eval.rs:167-169: the elites are appended and the generation returned
FillEnd ==
    /\ call.fn = "make_new_generation" /\ call.ret = "filling"
    /\ call.val.left = 0
    /\ LET number_of_fittest == number_of_fittest_of(call.arg.best_proportion, call.arg.len)
       IN  call' = [call EXCEPT
                      !.ret = "returned",
                      !.val.new_generation = @ \o [k \in 1 .. number_of_fittest |-> elite_member(k - 1)]]
    /\ UNCHANGED driver_vars

NextFill == FillBegin \/ FillOffspring \/ FillEnd

\* one call of make_new_generation; the call keeps running
SpecFill == InitFill /\ [][NextFill]_vars /\ WF_vars(NextFill)

(* ------------------- make_offspring, arm by arm ----------------------- *)

\* the number of outcomes of the draw in make_offspring
MODE_DRAWS == 15

\* the arms with the interleaving arm one pattern short
make_offspring_one_short(mother, father, r) ==
    IF r \in 0 .. 3 THEN [method |-> "offspring_iw", self |-> mother, other |-> father]
    ELSE IF r \in 4 .. 8 THEN [method |-> "offspring_aw", self |-> mother, other |-> father]
    ELSE IF r = 9 THEN [method |-> "offspring", self |-> mother, other |-> father]
    ELSE IF r = 10 THEN [method |-> "offspring_layers", self |-> mother, other |-> father]
    ELSE IF r \in 11 .. 12 THEN [method |-> "jiggle", self |-> mother, other |-> <<>>]
    ELSE IF r \in 13 .. 14 THEN [method |-> "jiggle", self |-> father, other |-> <<>>]
    ELSE [method |-> "unreachable", self |-> <<>>, other |-> <<>>]

\* eval.rs:215-223: the method called for the draw r, on which parent, with which other
make_offspring_arm(mother, father, r) ==
    IF r \in 0 .. 4 THEN [method |-> "offspring_iw", self |-> mother, other |-> father]
    ELSE IF r \in 5 .. 8 THEN [method |-> "offspring_aw", self |-> mother, other |-> father]
    ELSE IF r = 9 THEN [method |-> "offspring", self |-> mother, other |-> father]
    ELSE IF r = 10 THEN [method |-> "offspring_layers", self |-> mother, other |-> father]
    ELSE IF r \in 11 .. 12 THEN [method |-> "jiggle", self |-> mother, other |-> <<>>]
    ELSE IF r \in 13 .. 14 THEN [method |-> "jiggle", self |-> father, other |-> <<>>]
    ELSE [method |-> "unreachable", self |-> <<>>, other |-> <<>>]

\* parents that differ from each other in some layer or not at all
Parents == {ai \in SmallAIs : \A layer \in DOMAIN ai : ai[layer] \in TwoLinears /\ ai.input = ai.hidden}

InitOffspring ==
    /\ NotStarted
    /\ call \in {[fn |-> "make_offspring", arg |-> [mother |-> m, father |-> f],
                  ret |-> "pending", val |-> [r |-> -1, calls |-> <<>>]] :
                   m \in Parents, f \in Parents}

\* eval.rs:215: match rand::random_range(0..15); the arm taken makes its one call
MatchDraw ==
    /\ call.fn = "make_offspring" /\ call.ret = "pending"
    /\ \E r \in random_range(MODE_DRAWS) :
          LET arm == make_offspring_arm(call.arg.mother, call.arg.father, r)
          IN  call' = [call EXCEPT
                         !.ret = IF arm.method = "unreachable" THEN "panicked" ELSE "returned",
                         !.val = [r |-> r,
                                  calls |-> IF arm.method = "unreachable" THEN <<>> ELSE <<arm>>]]
    /\ UNCHANGED driver_vars

\* one call of make_offspring for every draw
SpecOffspring == InitOffspring /\ [][MatchDraw]_vars

(* ------------------------ resume, island by island -------------------- *)

\* the records the directory can hold when resume is asked for: none, or some
\* numbered from 0
Directories == {<<>>} \cup UNION {[0 .. (cnt - 1) -> Genomes] : cnt \in 1 .. MAX_RECORDS}

NotResumed == [islands |-> <<>>, best_score |-> -1, number_of_bests |-> -1]

InitResumeCall ==
    /\ NotStarted
    /\ call \in {[fn |-> "resume", arg |-> st, ret |-> "pending", val |-> NotResumed] :
                   st \in Directories}

\* eval.rs:41-43: resume_island for the next island
ResumeIsland ==
    /\ call.fn = "resume" /\ call.ret = "pending"
    /\ Len(call.val.islands) < ISLANDS
    /\ IF resume_island(call.arg) = {}
       THEN call' = [call EXCEPT !.ret = "panicked"]
       ELSE \E population \in resume_island(call.arg) :
               call' = [call EXCEPT !.val.islands = Append(@, population)]
    /\ UNCHANGED driver_vars

\* eval.rs:44-48: the first genome is scored and the latest sequence number read
ResumeScore ==
    /\ call.fn = "resume" /\ call.ret = "pending"
    /\ Len(call.val.islands) = ISLANDS
    /\ IF list(call.arg) = <<>>
       THEN call' = [call EXCEPT !.ret = "panicked"]
       ELSE call' = [call EXCEPT !.ret = "returned",
                                 !.val.best_score = test_ai(call.val.islands[1][1]),
                                 !.val.number_of_bests = list(call.arg)[1]]
    /\ UNCHANGED driver_vars

\* the resume branch of main for every directory
SpecResume == InitResumeCall /\ [][ResumeIsland \/ ResumeScore]_vars

(* ============================== claims =============================== *)

Count(g, pop) == Cardinality({k \in 1 .. Len(pop) : pop[k] = g})

\* the highest score in a population
MaxScore(pop) ==
    CHOOSE m \in {test_ai(pop[k]) : k \in 1 .. Len(pop)} :
        \A k \in 1 .. Len(pop) : test_ai(pop[k]) <= m

\* how many copies of genome g are among the nf highest-scored members of pop
AmongTop(g, pop, nf) ==
    LET higher == Cardinality({k \in 1 .. Len(pop) : test_ai(pop[k]) > test_ai(g)})
    IN  Min(Count(g, pop), Max(0, nf - higher))

\* the elite slice of a population: its last floor(BEST_PROPORTION * len) slots
EliteSlice(pop) ==
    SubSeq(pop, Len(pop) - number_of_fittest_of(BEST_PROPORTION, Len(pop)) + 1, Len(pop))

Elements(seq) == {seq[k] : k \in 1 .. Len(seq)}

\* C1: after any sequence of ticks and crossings every island holds exactly
\* ISLAND_POPULATION genomes: each generation make_new_generation returns is as
\* long as the scored list it was given.
PopulationSizeKept == \A k \in Islands : Len(islands[k]) = ISLAND_POPULATION

\* C1 witness: a run that went through every tick and the migration
PopulationSizeKeptWitness ==
    /\ pc = "done"
    /\ \A k \in Islands : printed[k] # -1 /\ Len(islands[k]) = ISLAND_POPULATION

\* C2: the generation that replaces island j contains, by value and with their
\* multiplicity, the floor(BEST_PROPORTION * n) highest-scored genomes of the
\* population that was evaluated.
ElitesCarriedOver ==
    [][pc = "tick" =>
         \A g \in Genomes :
            Count(g, islands'[j]) >=
               AmongTop(g, islands[j],
                        number_of_fittest_of(BEST_PROPORTION, Len(islands[j])))]_vars

\* C2 witness: island 0 was replaced and its elite slice holds two different genomes
ElitesCarriedOverWitness ==
    /\ printed[0] # -1
    /\ Elements(EliteSlice(islands[0])) = Genomes

\* C3: the top fitness measured for an island never drops from one tick to the
\* next, a migration in between included.
TopFitnessMonotone ==
    [][pc = "tick" /\ printed[j] # -1 => printed'[j] >= printed[j]]_vars

\* C3 witness: island 0 was measured at tick 0, crossed into, and measured again
TopFitnessMonotoneWitness ==
    /\ i = 1 /\ j = 1 /\ pc = "tick"
    /\ printed[0] = 2

\* C4: best_score is the maximum of its initial value and of every island top
\* score evaluated so far; a checkpoint is saved exactly when an island's top
\* score strictly exceeds best_score, and it holds a top-scored genome of the
\* evaluated population.
BestScoreTracksMaximum ==
    /\ [](best_score = Max(initial_best, highest))
    /\ [][pc = "tick" =>
            LET top == MaxScore(islands[j])
            IN  /\ highest' = Max(highest, top)
                /\ IF top > best_score
                   THEN /\ Len(saved') = Len(saved) + 1
                        /\ SubSeq(saved', 1, Len(saved)) = saved
                        /\ saved'[Len(saved')].ai \in Elements(islands[j])
                        /\ test_ai(saved'[Len(saved')].ai) = top
                        /\ store'[saved'[Len(saved')].seq] = saved'[Len(saved')].ai
                   ELSE saved' = saved /\ store' = store]_vars

\* C4 witness: two checkpoints were saved and a later evaluation saved none
BestScoreTracksMaximumWitness ==
    /\ Len(saved) = 2
    /\ i = 1 /\ j = 1
    /\ best_score = 2

\* C5 (as claimed): every save uses a sequence number above that of every record
\* already on disk, so no record is overwritten.
SaveNeverOverwrites ==
    [][saved' # saved =>
         \A s \in DOMAIN store : saved'[Len(saved')].seq > s]_vars

\* C6 (as claimed): whenever a migration starts, MIGRATION_PERIOD ticks have
\* been completed since the previous migration (or since the start).
MigrationEveryPeriod == pc = "crossing" => since = MIGRATION_PERIOD

\* C7: a migration makes exactly CROSSINGS crossings; in each the two islands
\* differ, mother and father are members of the elite slice of their own
\* island, and only one slot of the mother's island is written.
CrossingShape ==
    /\ [](event # NoEvent =>
            /\ event.mothers_island \in Islands
            /\ event.fathers_island \in Islands
            /\ event.mothers_island # event.fathers_island
            /\ event.mother \in Elements(EliteSlice(islands[event.mothers_island]))
            /\ event.father \in Elements(EliteSlice(islands[event.fathers_island])))
    /\ [][pc = "crossing" /\ best # <<>> /\ pc' = "crossing" =>
            /\ ev' = ev + 1
            /\ \E slot \in 1 .. ISLAND_POPULATION, offspring \in Genomes :
                  islands' = [islands EXCEPT ![event'.mothers_island][slot] = offspring]]_vars
    /\ [][pc = "crossing" /\ pc' # "crossing" => ev = CROSSINGS /\ islands' = islands]_vars
    /\ [][pc # "crossing" /\ pc' = "crossing" => ev' = 0]_vars

\* C7 witness: the last crossing of a migration, between two elites of different fitness
CrossingShapeWitness ==
    /\ pc = "crossing" /\ ev = CROSSINGS
    /\ event # NoEvent
    /\ event.mother # event.father

\* C10: processing island j leaves the population of every other island as it was.
OtherIslandsUntouched ==
    [][pc = "tick" => \A k \in Islands \ {j} : islands'[k] = islands[k]]_vars

\* C10 witness: island 0 has been replaced while island 1 still waits for its first tick
OtherIslandsUntouchedWitness ==
    /\ pc = "tick" /\ i = 0 /\ j = 1
    /\ printed[0] # -1 /\ printed[1] = -1

\* C8: an island is ranked and replaced only when every evaluation of its
\* population has returned, and while a migration runs no evaluation is in flight.
EvaluationsReturnFirst ==
    /\ [][pc = "evaluating" /\ pc' \notin {"evaluating", "panicked"} =>
            /\ \A w \in Workers : threads[w] = Idle
            /\ DOMAIN scores = 1 .. Len(islands[j])]_vars
    /\ [][islands' # islands => \A w \in Workers : threads[w] = Idle /\ threads'[w] = Idle]_vars
    /\ [](pc = "crossing" => pending = {} /\ \A w \in Workers : threads[w] = Idle)

\* C8 witness: a migration is running after every island was evaluated by the workers
EvaluationsReturnFirstWitness ==
    /\ pc = "crossing" /\ ev = 1
    /\ \A k \in Islands : printed[k] # -1
    /\ statics = AllStatics

\* C9 (as claimed): no evaluation fails, whatever the interleaving, and every
\* score that comes back is the score the genome gets when evaluated alone.
EvaluationsIndependent ==
    /\ pc # "panicked"
    /\ \A w \in Workers : threads[w].at # "panicked"
    /\ pc = "evaluating" => \A k \in DOMAIN scores : scores[k] = test_ai(islands[j][k])

\* the step the claim assigns to a score (hundredths -> thousandths)
ClaimedStep(s) ==
    CHOOSE f \in {150, 75, 50, 20, 10} :
        /\ f = 150 <=> s < 50
        /\ f = 75 <=> (50 <= s /\ s < 75)
        /\ f = 50 <=> (75 <= s /\ s < 90)
        /\ f = 20 <=> (90 <= s /\ s < 95)
        /\ f = 10 <=> 95 <= s

\* C11: the mutation scale factor is 0.15 below 0.5, 0.075 below 0.75, 0.05
\* below 0.9, 0.02 below 0.95 and 0.01 from 0.95 on, each breakpoint falling in
\* the finer step; it never increases with the score, and
\* scaleFactor(0.49) > scaleFactor(0.51).
ScaleFactorSteps ==
    call.ret = "returned" =>
        /\ call.val[1] = ClaimedStep(call.arg[1])
        /\ call.val[2] = ClaimedStep(call.arg[2])
        /\ call.arg[1] <= call.arg[2] => call.val[1] >= call.val[2]
        /\ call.arg = <<49, 51>> => call.val[1] > call.val[2]

\* C11 witness: the factors for 0.49 and 0.51 have been computed
ScaleFactorStepsWitness ==
    /\ call.ret = "returned"
    /\ call.arg = <<49, 51>>
    /\ call.val = <<150, 75>>

\* the sequence number of the r-th most recent record, r counted from 1
Recent(r) ==
    CHOOSE s \in DOMAIN store : Cardinality({t \in DOMAIN store : t > s}) = r - 1

Unparsable == <<"b", "e", "s", "t", "_">> \o own_name \o <<"_", "x">> \o mpk

\* the identifiers of the well-formed records of own_name among entries, the
\* highest sequence number first, at most LIST_LIMIT of them
RECURSIVE Descending(_)
Descending(seqs) ==
    IF seqs = {} THEN <<>>
    ELSE LET top == CHOOSE q \in seqs : \A r \in seqs : r <= q
         IN  <<ai_naming(own_name, top)>> \o Descending(seqs \ {top})

ExpectedListing(entries) ==
    LET all == Descending({q \in 0 .. MAX_FILES : (ai_naming(own_name, q) \o mpk) \in entries})
    IN  SubSeq(all, 1, Min(Len(all), LIST_LIMIT))

\* C13 (as claimed): whatever well-formed record files are present, list()
\* returns the identifiers of the records of its own topology with the highest
\* sequence numbers, at most 30, in strictly descending order of sequence
\* number, and none of another topology.
ListReturnsMostRecent ==
    (call.fn = "list" /\ call.ret # "pending" /\ Unparsable \notin call.arg) =>
        /\ call.ret = "returned"
        /\ call.val = ExpectedListing(call.arg)

\* C14 (as claimed): a record whose identifier cannot be parsed is skipped:
\* list() does not fail and returns the well-formed records.
ListSkipsUnparsable ==
    (call.fn = "list" /\ call.ret # "pending" /\ Unparsable \in call.arg) =>
        /\ call.ret = "returned"
        /\ call.val = ExpectedListing(call.arg)

\* C15: extract_seq gives back the sequence number of a record file name: for
\* the name ai_naming builds from a network name of letters and spaces and a
\* sequence number, followed by ".mpk", it returns that sequence number.
ExtractSeqRecoversSeq ==
    (call.fn = "extract_seq" /\ call.ret # "pending") =>
        /\ call.ret = "returned"
        /\ call.val = call.arg.seq

\* C15 witness: the case of the repository's test, best_te st_1234.mpk
ExtractSeqRecoversSeqWitness ==
    /\ call.fn = "extract_seq" /\ call.ret = "returned"
    /\ call.arg = [network_name |-> <<"t", "e", " ", "s", "t">>, seq |-> 1234]
    /\ call.val = 1234

ShapesOf(linear) == <<linear.weight.shape, linear.bias.shape>>

\* C16 (as claimed): a binary operator applied to two layers of different
\* shapes fails and produces nothing.
OperatorsRejectMismatch ==
    (call.fn \in {"combine_bw_linear", "interleave_bw_linear"} /\ call.ret # "pending"
       /\ ShapesOf(call.arg[1]) # ShapesOf(call.arg[2]))
        => call.ret = "panicked"

\* C18: for same-shaped parents and every draw of the masks, every entry of
\* interleave's result is the entry of a or the entry of b at that position,
\* never zero and never their sum.
InterleaveCoverage ==
    (call.fn = "interleave_bw_linear" /\ call.ret # "pending"
       /\ ShapesOf(call.arg[1]) = ShapesOf(call.arg[2]))
        => /\ call.ret = "returned"
           /\ ShapesOf(call.val) = ShapesOf(call.arg[1])
           /\ \A k \in DOMAIN call.val.weight.data :
                 call.val.weight.data[k] \in {call.arg[1].weight.data[k], call.arg[2].weight.data[k]}
           /\ \A k \in DOMAIN call.val.bias.data :
                 call.val.bias.data[k] \in {call.arg[1].bias.data[k], call.arg[2].bias.data[k]}

\* C18 witness: a two-entry weight interleaved into one entry of a and one of b
InterleaveCoverageWitness ==
    /\ call.fn = "interleave_bw_linear" /\ call.ret = "returned"
    /\ call.arg[1].weight.data = <<1, 1>> /\ call.arg[2].weight.data = <<2, 2>>
    /\ call.val.weight.data = <<1, 2>>

\* C17: for parents of matching shapes, in the genome combine builds before
\* jiggling every weight entry of every layer is a's and every bias entry b's.
CombineProvenance ==
    (call.fn = "offspring" /\ call.ret = "built") =>
        \A layer \in DOMAIN call.val :
           /\ ShapesOf(call.arg[1][layer]) = ShapesOf(call.arg[2][layer])
           /\ ShapesOf(call.val[layer]) = ShapesOf(call.arg[1][layer])
           /\ \A k \in DOMAIN call.val[layer].weight.data :
                 call.val[layer].weight.data[k] = call.arg[1][layer].weight.data[k]
           /\ \A k \in DOMAIN call.val[layer].bias.data :
                 call.val[layer].bias.data[k] = call.arg[2][layer].bias.data[k]

\* C17 witness: parents that differ everywhere have been combined
CombineProvenanceWitness ==
    /\ call.fn = "offspring" /\ call.ret = "built"
    /\ \A layer \in DOMAIN call.val :
          /\ call.arg[1][layer].weight.data = <<1>> /\ call.arg[1][layer].bias.data = <<1>>
          /\ call.arg[2][layer].weight.data = <<2>> /\ call.arg[2][layer].bias.data = <<2>>
          /\ call.val[layer].weight.data = <<1>> /\ call.val[layer].bias.data = <<2>>

\* the layers in the order the forward pass applies them
ForwardOrder(fn) ==
    IF fn = "AI::offspring_layers"
    THEN <<"input", "hidden_1", "hidden_2", "hidden_3", "output">>
    ELSE <<"input", "hidden", "output">>

\* the layers in the order the struct declares them
DeclaredOrder(fn) ==
    IF fn = "AI::offspring_layers"
    THEN <<"input", "output", "hidden_1", "hidden_2", "hidden_3">>
    ELSE <<"input", "output", "hidden">>

\* every layer of the built genome is a whole layer of one parent, a and b
\* alternating along order, a first
Alternates(order) ==
    \A k \in 1 .. Len(order) :
        call.val[order[k]] = call.arg[IF k % 2 = 1 THEN 1 ELSE 2][order[k]]

\* C19 (as claimed): layerSwap takes every layer whole from one parent,
\* alternating along the order of the forward pass: input from a, the next
\* layer from b, the next from a, and so on.
LayerSwapForwardOrder ==
    (call.fn \in {"offspring_layers", "AI::offspring_layers"} /\ call.ret = "built") =>
        Alternates(ForwardOrder(call.fn))

\* C19 (amended): layerSwap takes every layer whole from one parent,
\* alternating along the order in which the struct declares its layers (input,
\* output, then the hidden layers): input from a, output from b, the first
\* hidden layer from a, and so on.
LayerSwapDeclaredOrder ==
    (call.fn \in {"offspring_layers", "AI::offspring_layers"} /\ call.ret = "built") =>
        Alternates(DeclaredOrder(call.fn))

\* C19 witness: a layer swap of two SmallAIs that differ in every layer
LayerSwapDeclaredOrderWitness ==
    /\ call.fn = "offspring_layers" /\ call.ret = "built"
    /\ \A layer \in DOMAIN call.val : call.arg[1][layer] # call.arg[2][layer]
    /\ call.val.output = call.arg[2].output
    /\ call.val.hidden = call.arg[1].hidden

\* some step of some genome scores a non-finite value
NonFiniteScored ==
    \E g \in 1 .. EVALUATED, t \in 1 .. STEPS :
        scorer(call.arg.init_state, call.arg.end_states[g][t]).kind # "fin"

LargestEntry(ai) ==
    CHOOSE m \in 0 .. 2 :
        /\ \E layer \in DOMAIN ai : \E part \in {"weight", "bias"} :
              \E k \in DOMAIN ai[layer][part].data :
                  ai[layer][part].data[k] \in {m, 0 - m}
        /\ \A layer \in DOMAIN ai : \A part \in {"weight", "bias"} :
              \A k \in DOMAIN ai[layer][part].data :
                  ai[layer][part].data[k] \in (0 - m) .. m

\* C22: the standard deviation of a generation fill is the largest absolute
\* weight or bias entry of the top-ranked genome times the scale factor of the
\* top fitness, whatever the deviation of the call before was.
DeviationFromRanking ==
    (call.fn = "std_deviation" /\ call.ret = "returned") =>
        call.val.std_deviation = LargestEntry(call.arg[1][2]) * ClaimedStep(call.arg[1][1])

\* C22 witness: a deviation was computed after a different one, for a top genome
\* whose largest entry is negative and smaller in amplitude entries exist, and
\* whose runner-up has a larger amplitude
DeviationFromRankingWitness ==
    /\ call.fn = "std_deviation" /\ call.ret = "returned"
    /\ call.val.earlier = 2 * 150
    /\ call.val.std_deviation = 1 * 50
    /\ LargestEntry(call.arg[2][2]) = 2


\* C24: when make_distinct(max) returns, its two indices differ and both are
\* below max; so the parents of a generation fill sit at two different elite
\* indices and a migration event joins two different islands.
DistinctPair ==
    /\ (call.fn = "make_distinct" /\ call.ret = "returned") =>
          /\ call.val[1] # call.val[2]
          /\ call.val[1] \in 0 .. (call.arg - 1)
          /\ call.val[2] \in 0 .. (call.arg - 1)
          /\ call.val \in make_distinct(call.arg)
    /\ \A p \in make_distinct(number_of_fittest_of(BEST_PROPORTION, ISLAND_POPULATION)) \cup
                make_distinct(ISLANDS) : p[1] # p[2]

\* C24 witness: the loop has rejected a draw equal to the first one and the
\* call has returned with a later draw
DistinctPairWitness ==
    /\ call.fn = "make_distinct" /\ call.ret = "returned"
    /\ call.arg = ISLANDS
    /\ call.val[1] = 1 /\ call.val[2] = 0

\* C27: under fair draws make_distinct(max) returns when max is at least 2,
\* never returns and never aborts when max is 1, and aborts when max is 0;
\* the elite count of a generation fill and the island count of a migration
\* are both at least 2.
DistinctTerminates ==
    /\ (call.fn = "make_distinct" /\ call.arg >= 2) ~> (call.ret = "returned")
    /\ [](call.fn = "make_distinct" /\ call.arg = 1 => call.ret \in {"pending", "loop"})
    /\ (call.fn = "make_distinct" /\ call.arg = 0) ~> (call.ret = "panicked")
    /\ [](call.fn = "make_distinct" /\ call.arg = 0 => call.ret \in {"pending", "panicked"})
    /\ [](number_of_fittest_of(BEST_PROPORTION, ISLAND_POPULATION) \in 2 .. MAX_DRAW /\ ISLANDS \in 2 .. MAX_DRAW)

\* C27 witness: with max = 1 the loop has drawn the first index again
DistinctTerminatesWitness ==
    /\ call.fn = "make_distinct" /\ call.ret = "loop"
    /\ call.arg = 1 /\ call.val = <<0, 0>>


\* the members of one kind in a generation
OfKind(new_generation, kind) == {k \in DOMAIN new_generation : new_generation[k].kind = kind}

\* C23: a generation returned for n scored genomes holds exactly
\* floor(best_proportion * n) clones of the top-ranked genomes, one of each,
\* exactly ALWAYS_RAND_COUNT fresh random genomes, and
\* n - floor(best_proportion * n) - ALWAYS_RAND_COUNT offspring whose mother
\* and father are both among those top-ranked genomes.
GenerationComposition ==
    (call.fn = "make_new_generation" /\ call.ret = "returned") =>
        LET n == call.arg.len
            elites == (call.arg.best_proportion[1] * n) \div call.arg.best_proportion[2]
            g == call.val.new_generation
        IN  /\ Cardinality(OfKind(g, "elite")) = elites
            /\ \A e \in 0 .. (elites - 1) :
                  Cardinality({k \in OfKind(g, "elite") : g[k].mother = e}) = 1
            /\ Cardinality(OfKind(g, "random")) = ALWAYS_RAND_COUNT
            /\ Cardinality(OfKind(g, "offspring")) = n - elites - ALWAYS_RAND_COUNT
            /\ OfKind(g, "elite") \cup OfKind(g, "random") \cup OfKind(g, "offspring") = DOMAIN g
            /\ \A k \in OfKind(g, "offspring") :
                  g[k].mother \in 0 .. (elites - 1) /\ g[k].father \in 0 .. (elites - 1)

\* C23 witness: a returned generation with two offspring of different parents
GenerationCompositionWitness ==
    /\ call.fn = "make_new_generation" /\ call.ret = "returned"
    /\ Cardinality(OfKind(call.val.new_generation, "elite")) = 3
    /\ \E k \in OfKind(call.val.new_generation, "offspring") :
          \E m \in OfKind(call.val.new_generation, "offspring") :
              /\ call.val.new_generation[k].mother = 2
              /\ call.val.new_generation[m].mother = 0

\* the precondition of C28
FillPrecondition ==
    LET elites == (call.arg.best_proportion[1] * call.arg.len) \div call.arg.best_proportion[2]
    IN  elites >= 2 /\ call.arg.len >= elites + ALWAYS_RAND_COUNT

\* C28: when floor(best_proportion * n) is at least 2 and n is at least that
\* plus ALWAYS_RAND_COUNT, make_new_generation returns a population of size n:
\* the offspring count does not underflow, no parent index is out of range and
\* the call does not hang; the driver's n and best_proportion satisfy this.
FillReturns ==
    /\ [](call.fn = "make_new_generation" /\ FillPrecondition =>
            /\ call.ret \in {"pending", "filling", "returned"}
            /\ call.val.left >= 0
            /\ \A k \in DOMAIN call.val.new_generation :
                  call.val.new_generation[k].kind = "offspring" =>
                      /\ call.val.new_generation[k].mother \in 0 .. (call.arg.len - 1)
                      /\ call.val.new_generation[k].father \in 0 .. (call.arg.len - 1)
            /\ call.ret = "returned" => Len(call.val.new_generation) = call.arg.len)
    /\ (call.fn = "make_new_generation" /\ FillPrecondition) ~> (call.ret = "returned")
    /\ [](/\ number_of_fittest_of(BEST_PROPORTION, ISLAND_POPULATION) >= 2
          /\ ISLAND_POPULATION >= number_of_fittest_of(BEST_PROPORTION, ISLAND_POPULATION) + ALWAYS_RAND_COUNT
          /\ ISLAND_POPULATION <= MAX_POPULATION /\ BEST_PROPORTION \in Proportions
          /\ number_of_fittest_of(<<1, 4>>, 100) >= 2
          /\ 100 >= number_of_fittest_of(<<1, 4>>, 100) + 3)

\* C28 witness: the call returned for a list that is just long enough, with no offspring
FillReturnsWitness ==
    /\ call.fn = "make_new_generation" /\ call.ret = "returned"
    /\ FillPrecondition
    /\ call.arg.len = 3 + ALWAYS_RAND_COUNT
    /\ call.arg.best_proportion = <<3, 4>>


\* the reproduction mode the claim gives to a draw
ClaimedMode(r) ==
    CHOOSE m \in {"offspring_iw", "offspring_aw", "offspring", "offspring_layers",
                  "jiggle mother", "jiggle father", "none"} :
        /\ m = "offspring_iw" <=> r \in 0 .. 4
        /\ m = "offspring_aw" <=> r \in 5 .. 8
        /\ m = "offspring" <=> r = 9
        /\ m = "offspring_layers" <=> r = 10
        /\ m = "jiggle mother" <=> r \in 11 .. 12
        /\ m = "jiggle father" <=> r \in 13 .. 14
        /\ m = "none" <=> r \notin 0 .. 14

\* C25: make_offspring takes its mode from one draw r of 0..14: 0..4
\* interleave (offspring_iw), 5..8 average (offspring_aw), 9 combine
\* (offspring), 10 layerSwap (offspring_layers), 11..12 a jiggle of the mother
\* alone, 13..14 a jiggle of the father alone; the fifteen draws are all
\* covered, each makes exactly one offspring and the unreachable arm is not taken.
OffspringModes ==
    /\ call.fn = "make_offspring" /\ call.ret # "pending" =>
          /\ call.ret = "returned"
          /\ call.val.r \in 0 .. 14
          /\ Len(call.val.calls) = 1
          /\ LET made == call.val.calls[1]
                 mode == ClaimedMode(call.val.r)
             IN  IF mode = "jiggle mother"
                 THEN made = [method |-> "jiggle", self |-> call.arg.mother, other |-> <<>>]
                 ELSE IF mode = "jiggle father"
                 THEN made = [method |-> "jiggle", self |-> call.arg.father, other |-> <<>>]
                 ELSE made = [method |-> mode, self |-> call.arg.mother, other |-> call.arg.father]
    /\ random_range(MODE_DRAWS) = 0 .. 14
    /\ 5 + 4 + 1 + 1 + 2 + 2 = Cardinality(random_range(MODE_DRAWS))

\* C25 witness: the last draw, 14, jiggled a father that differs from the mother
OffspringModesWitness ==
    /\ call.fn = "make_offspring" /\ call.ret = "returned"
    /\ call.val.r = 14
    /\ call.arg.mother # call.arg.father
    /\ call.val.calls[1].self = call.arg.father


\* C26: a migration writes only slots below ALWAYS_RAND_COUNT of the mother's
\* island, which lie before the elite slots at the end of the island: every
\* slot from ALWAYS_RAND_COUNT on, every island that is not the mother's, every
\* elite and every population size stay as they were.
MigrationFrame ==
    /\ [][pc = "crossing" =>
            \A k \in Islands :
               \/ islands'[k] = islands[k]
               \/ /\ ev' = ev + 1 /\ k = event'.mothers_island
                  /\ Len(islands'[k]) = Len(islands[k])
                  /\ \A slot \in 0 .. (Len(islands[k]) - 1) :
                        slot >= ALWAYS_RAND_COUNT => islands'[k][slot + 1] = islands[k][slot + 1]
                  /\ EliteSlice(islands'[k]) = EliteSlice(islands[k])]_vars
    /\ [](ALWAYS_RAND_COUNT <= fittest_start)

\* C26 witness: a crossing has put an offspring weaker than the elites in front
\* of the elites of island 1
MigrationFrameWitness ==
    /\ pc = "crossing" /\ ev = 1
    /\ event # NoEvent /\ event.mothers_island = 1
    /\ islands[1][1] = 1
    /\ Elements(EliteSlice(islands[1])) = {2}


\* C29: when resume is asked for and the directory holds no record, resume
\* aborts and returns no population; it does not start from fresh genomes.
ResumeWithoutRecordAborts ==
    (call.fn = "resume" /\ call.arg = <<>>) =>
        /\ call.val.islands = <<>>
        /\ call.ret \in {"pending", "panicked"}
        /\ resume_island(call.arg) = {}

\* C29 witness: resume has aborted on an empty directory
ResumeWithoutRecordAbortsWitness ==
    /\ call.fn = "resume" /\ call.ret = "panicked"
    /\ call.arg = <<>>
    /\ number_of_fittest_of(BEST_PROPORTION, ISLAND_POPULATION) > 0


\* the records resume_island puts into the elite slots
LoadedElites(st) ==
    {st[list(st)[k]] :
        k \in 1 .. Min(Len(list(st)), number_of_fittest_of(BEST_PROPORTION, ISLAND_POPULATION))}

\* C30: in a resumed run the best_score the run starts from is at least the
\* fitness of every loaded elite, and a checkpoint is saved only for a genome
\* whose fitness strictly exceeds that of the best loaded elite.
SaveOnlyAboveLoaded ==
    /\ [](resumed /\ saved = <<>> =>
            \A loaded \in LoadedElites(store) : best_score >= test_ai(loaded))
    /\ [][resumed /\ saved = <<>> /\ saved' # saved =>
            \A loaded \in LoadedElites(store) : test_ai(saved'[1].ai) > test_ai(loaded)]_vars

====
